---- MODULE Spec2Model ----
(***************************************************************************)
(* droidrun telemetry: the with_span decorator (span_decorator.py) and the *)
(* AttributeSpanHandler (attribute_span_handler.py).                       *)
(*                                                                         *)
(* Text is a sequence of one-token strings, so that building an identity   *)
(* "<name>-<uuid4>" and splitting it again are computed, not assumed.      *)
(* A Python dict is a sequence of [k, v] pairs with distinct keys, in      *)
(* insertion order.  A tag value is a record [t, b, s, l] holding a bool,  *)
(* a str or a list of str.                                                 *)
(***************************************************************************)
EXTENDS Integers, Sequences, FiniteSets, TLC

\* ------------------------------------------------------------------ bounds
MaxCalls == 2
MaxCallsNest == 3
MaxLayers == 2
MaxCallsDeco == 2
MaxCallsCfg == 1
MaxDecorationsCfg == 1
MaxCallsAttr == 1
MaxCallsMix == 1
MaxForeign == 1
MaxCallsHandler == 2
MaxCallsFail == 1

\* ------------------------------------------------- Python values and dicts
None == "None"
NoId == <<>>

B(b) == [t |-> "bool", b |-> b, s |-> "", l |-> <<>>]
S(s) == [t |-> "str", b |-> FALSE, s |-> s, l |-> <<>>]
L(l) == [t |-> "list", b |-> FALSE, s |-> "", l |-> l]

Truthy(v) ==
    CASE v.t = "bool" -> v.b
      [] v.t = "str" -> v.s # ""
      [] v.t = "list" -> v.l # <<>>

Str(v) ==
    CASE v.t = "bool" -> IF v.b THEN "True" ELSE "False"
      [] v.t = "str" -> v.s
      [] v.t = "list" -> "list"

Has(d, k) == \E i \in 1..Len(d) : d[i].k = k

Get(d, k) == d[CHOOSE i \in 1..Len(d) : d[i].k = k].v

GetOr(d, k, dflt) == IF Has(d, k) THEN Get(d, k) ELSE dflt

Put(d, k, v) ==
    IF Has(d, k)
    THEN [i \in 1..Len(d) |-> IF d[i].k = k THEN [k |-> k, v |-> v] ELSE d[i]]
    ELSE Append(d, [k |-> k, v |-> v])

RECURSIVE Update(_, _)
Update(d, e) == IF e = <<>> THEN d ELSE Update(Put(d, e[1].k, e[1].v), Tail(e))

RECURSIVE Pop(_, _)
Pop(d, k) ==
    IF d = <<>> THEN <<>>
    ELSE IF d[1].k = k THEN Pop(Tail(d), k)
    ELSE <<d[1]>> \o Pop(Tail(d), k)

Without(m, k) == [x \in DOMAIN m \ {k} |-> m[x]]

\* ------------------------------------------------------------------- text
\* str(uuid.uuid4()): hexadecimal groups joined by hyphens; the first group
\* carries the fresh value n, the others are abstracted to one token.
UuidGroups == 5

RECURSIVE UuidTail(_)
UuidTail(k) == IF k = 0 THEN <<>> ELSE <<"-", "u">> \o UuidTail(k - 1)

uuid4(n) == <<ToString(n)>> \o UuidTail(UuidGroups - 1)

\* json.dumps of a str, of a list of str, of a dict of str
JsonStr(s) == <<"\"">> \o s \o <<"\"">>

RECURSIVE JsonItems(_)
JsonItems(l) ==
    IF l = <<>> THEN <<>>
    ELSE IF Len(l) = 1 THEN JsonStr(l[1])
    ELSE JsonStr(l[1]) \o <<",", " ">> \o JsonItems(Tail(l))

JsonList(l) == <<"[">> \o JsonItems(l) \o <<"]">>

RECURSIVE JsonPairs(_)
JsonPairs(d) ==
    IF d = <<>> THEN <<>>
    ELSE JsonStr(<<d[1].k>>) \o <<":", " ">> \o JsonStr(<<d[1].v>>)
         \o (IF Len(d) = 1 THEN <<>> ELSE <<",", " ">> \o JsonPairs(Tail(d)))

JsonDict(d) == <<"{">> \o JsonPairs(d) \o <<"}">>

\* json.dumps(result, default=str) of a scalar result
JsonValue(v) == JsonStr(<<v>>)

\* s.rsplit("-", 1)[0]: everything before the last "-", or s when it has none
LastHyphen(s) ==
    IF \E i \in 1..Len(s) : s[i] = "-"
    THEN CHOOSE i \in 1..Len(s) :
            /\ s[i] = "-"
            /\ \A j \in (i + 1)..Len(s) : s[j] # "-"
    ELSE 0

rsplit1(s) == IF LastHyphen(s) = 0 THEN s ELSE SubSeq(s, 1, LastHyphen(s) - 1)

\* ------------------------------------------------ with_span: the decorator
\* control_tags as built once per decoration from the decorator's arguments.
\* cfg = [name, tags, level, error_level, capture_input, capture_output],
\* cfg.tags = [t, l, d] with t in {"none", "list", "dict"}.
base_control_tags(cfg) ==
    << [k |-> "_with_span_marker", v |-> B(TRUE)],
       [k |-> "_langfuse_level", v |-> S(cfg.level)],
       [k |-> "_langfuse_error_level", v |-> S(cfg.error_level)],
       [k |-> "_capture_input", v |-> B(cfg.capture_input)],
       [k |-> "_capture_output", v |-> B(cfg.capture_output)] >>

control_tags(cfg) ==
    IF cfg.tags.t = "list"
    THEN Put(base_control_tags(cfg), "_langfuse_tags_list", L(cfg.tags.l))
    ELSE IF cfg.tags.t = "dict"
    THEN Update(base_control_tags(cfg), cfg.tags.d)
    ELSE base_control_tags(cfg)

\* merged_tags = {**active_tags, **control_tags}
merged_tags(active_tags, cfg) == Update(active_tags, control_tags(cfg))

\* The span identity: "<name>-<uuid4>".  fn = [async, markable, qualname,
\* fname, cls]; cls is the instance's type name, <<>> when instance is None.
span_name(cfg, fn) ==
    IF fn.cls # <<>>
    THEN IF cfg.name # <<>> THEN cfg.name ELSE fn.cls \o <<".">> \o fn.fname
    ELSE IF cfg.name # <<>> THEN cfg.name ELSE fn.qualname

span_id(cfg, fn, n) == span_name(cfg, fn) \o <<"-">> \o uuid4(n)

\* Faulty variant: the reset is left out
ContextVarResetSkipped(cur, slot, token) == [err |-> "none", slot |-> slot]

\* ContextVar.reset(token) run in the Context `cur` whose slot holds `slot`:
\* a token minted in another Context raises ValueError and changes nothing.
ContextVarReset(cur, slot, token) ==
    IF token.ctx # cur
    THEN [err |-> "ValueError", slot |-> slot]
    ELSE [err |-> "none", slot |-> token.old]

\* ------------------------------------------------- AttributeSpanHandler
\* Each handler maps (h = [active, config], ...) to the new maps, the
\* set_attribute calls made on the live span, the exceptions recorded on it
\* and what the handler raises to the dispatcher; span_enter also gives what
\* the tags mapping it received holds afterwards.  fail names the internal
\* step that raises, "none" when none does.
ControlKeys ==
    << "_with_span_marker", "_capture_input", "_capture_output",
       "_langfuse_level", "_langfuse_error_level", "_langfuse_tags_list" >>

RECURSIVE PopAll(_, _)
PopAll(d, ks) == IF ks = <<>> THEN d ELSE PopAll(Pop(d, ks[1]), Tail(ks))

Call1(k, v) == [k |-> k, v |-> v]

\* an internal step raised: what the handler has done so far stays done
Raise(r) == [r EXCEPT !.raised = "Exception"]

\* Faulty variant: the control keys are popped from the mapping received
tags_popped_in_place(tags, residual) == residual

\* tags = dict(tags): the pops act on the copy, so the mapping the
\* dispatcher passed (and every other subscriber sees) keeps all its keys
tags_after_copy(tags, residual) == tags

\* Faulty variant: the handler has no except clause
except_nothing(r) == r

\* try: ... except Exception as e: logger.debug(...)
except_Exception(r) ==
    IF r.raised = "Exception" THEN [r EXCEPT !.raised = "none"] ELSE r

TagCalls(tags_list, residual) ==
    IF Truthy(tags_list)
    THEN << Call1("langfuse.trace.tags",
                  JsonList([i \in 1..Len(tags_list.l) |-> <<tags_list.l[i]>>])) >>
    ELSE IF residual # <<>>
    THEN << Call1("langfuse.trace.tags",
                  JsonList([i \in 1..Len(residual) |->
                               <<residual[i].k, ":", Str(residual[i].v)>>])) >>
         \o [i \in 1..Len(residual) |->
                Call1(residual[i].k, <<Str(residual[i].v)>>)]
    ELSE <<>>

InputCalls(capture_input, args, instance, fail) ==
    LET args_dict == IF instance # <<>> /\ Has(args, "self")
                     THEN Pop(args, "self") ELSE args
    IN  IF Truthy(capture_input) /\ args_dict # <<>> /\ fail # "json"
        THEN << Call1("langfuse.observation.input", JsonDict(args_dict)) >>
        ELSE <<>>

\* Faulty variant: the control marker is not looked at
span_enter_unchecked(h, id, args, instance, tags, span, fail) ==
    LET same == [active |-> h.active, config |-> h.config,
                 calls |-> <<>>, excs |-> <<>>, raised |-> "none",
                 tags |-> tags]
        stored == [same EXCEPT !.active = (id :> span.ref) @@ h.active]
        capture_input == GetOr(tags, "_capture_input", B(h.default_capture_io))
        capture_output == GetOr(tags, "_capture_output", B(h.default_capture_io))
        level == GetOr(tags, "_langfuse_level", S("DEFAULT"))
        error_level == GetOr(tags, "_langfuse_error_level", S("ERROR"))
        tags_list == GetOr(tags, "_langfuse_tags_list", L(<<>>))
        residual == PopAll(tags, ControlKeys)
        configured ==
            [stored EXCEPT !.config =
                (id :> [capture_output |-> capture_output,
                        error_level |-> error_level]) @@ h.config,
                           !.tags = tags_after_copy(tags, residual)]
    IN  except_Exception(
        IF fail = "get_current_span" THEN Raise(same)
        ELSE IF fail = "is_recording" THEN Raise(stored)
        ELSE IF ~span.recording THEN stored
        ELSE IF fail = "set_attribute" THEN Raise(configured)
        ELSE [configured EXCEPT !.calls =
                << Call1("langfuse.observation.name", rsplit1(id)),
                   Call1("langfuse.observation.level", <<Str(level)>>) >>
                \o TagCalls(tags_list, residual)
                \o InputCalls(capture_input, args, instance, fail)])

span_enter(h, id, args, instance, tags, span, fail) ==
    LET same == [active |-> h.active, config |-> h.config,
                 calls |-> <<>>, excs |-> <<>>, raised |-> "none",
                 tags |-> tags]
        stored == [same EXCEPT !.active = (id :> span.ref) @@ h.active]
        capture_input == GetOr(tags, "_capture_input", B(h.default_capture_io))
        capture_output == GetOr(tags, "_capture_output", B(h.default_capture_io))
        level == GetOr(tags, "_langfuse_level", S("DEFAULT"))
        error_level == GetOr(tags, "_langfuse_error_level", S("ERROR"))
        tags_list == GetOr(tags, "_langfuse_tags_list", L(<<>>))
        residual == PopAll(tags, ControlKeys)
        configured ==
            [stored EXCEPT !.config =
                (id :> [capture_output |-> capture_output,
                        error_level |-> error_level]) @@ h.config,
                           !.tags = tags_after_copy(tags, residual)]
    IN  except_Exception(
        IF tags = <<>> \/ ~Has(tags, "_with_span_marker") THEN same
        ELSE IF fail = "get_current_span" THEN Raise(same)
        ELSE IF fail = "is_recording" THEN Raise(stored)
        ELSE IF ~span.recording THEN stored
        ELSE IF fail = "set_attribute" THEN Raise(configured)
        ELSE [configured EXCEPT !.calls =
                << Call1("langfuse.observation.name", rsplit1(id)),
                   Call1("langfuse.observation.level", <<Str(level)>>) >>
                \o TagCalls(tags_list, residual)
                \o InputCalls(capture_input, args, instance, fail)])

\* Faulty variant: the live span is popped only when a config was stored
span_exit_config_first(h, id, result, recording, fail) ==
    LET popped == [active |-> Without(h.active, id),
                   config |-> Without(h.config, id),
                   calls |-> <<>>, excs |-> <<>>, raised |-> "none"]
    IN  except_Exception(
        IF id \notin DOMAIN h.config
        THEN [popped EXCEPT !.active = h.active]
        ELSE IF id \notin DOMAIN h.active THEN popped
        ELSE IF fail = "is_recording" THEN Raise(popped)
        ELSE IF ~recording THEN popped
        ELSE IF Truthy(h.config[id].capture_output) /\ result # None
        THEN IF fail = "set_attribute" THEN popped
             ELSE IF fail = "json"
             THEN [popped EXCEPT !.calls =
                     << Call1("langfuse.observation.output", <<result>>) >>]
             ELSE [popped EXCEPT !.calls =
                     << Call1("langfuse.observation.output", JsonValue(result)) >>]
        ELSE popped)

span_exit(h, id, result, recording, fail) ==
    LET popped == [active |-> Without(h.active, id),
                   config |-> Without(h.config, id),
                   calls |-> <<>>, excs |-> <<>>, raised |-> "none"]
    IN  except_Exception(
        IF id \notin DOMAIN h.config \/ id \notin DOMAIN h.active THEN popped
        ELSE IF fail = "is_recording" THEN Raise(popped)
        ELSE IF ~recording THEN popped
        ELSE IF Truthy(h.config[id].capture_output) /\ result # None
        THEN IF fail = "set_attribute" THEN popped
             ELSE IF fail = "json"
             THEN [popped EXCEPT !.calls =
                     << Call1("langfuse.observation.output", <<result>>) >>]
             ELSE [popped EXCEPT !.calls =
                     << Call1("langfuse.observation.output", JsonValue(result)) >>]
        ELSE popped)

\* Faulty variant: the level on failure is the constant "ERROR"
span_drop_fixed_level(h, id, err, recording, fail) ==
    LET popped == [active |-> Without(h.active, id),
                   config |-> Without(h.config, id),
                   calls |-> <<>>, excs |-> <<>>, raised |-> "none"]
        level == Call1("langfuse.observation.level", <<"ERROR">>)
    IN  except_Exception(
        IF id \notin DOMAIN h.config \/ id \notin DOMAIN h.active THEN popped
        ELSE IF fail = "is_recording" THEN Raise(popped)
        ELSE IF ~recording THEN popped
        ELSE IF fail = "set_attribute" THEN Raise(popped)
        ELSE IF err = None THEN [popped EXCEPT !.calls = <<level>>]
        ELSE LET told == [popped EXCEPT !.calls =
                            << level,
                               Call1("langfuse.observation.status_message",
                                     <<err>>) >>]
             IN  IF fail = "record_exception" THEN Raise(told)
                 ELSE [told EXCEPT !.excs = <<err>>])

span_drop(h, id, err, recording, fail) ==
    LET popped == [active |-> Without(h.active, id),
                   config |-> Without(h.config, id),
                   calls |-> <<>>, excs |-> <<>>, raised |-> "none"]
        level == Call1("langfuse.observation.level",
                       <<Str(h.config[id].error_level)>>)
    IN  except_Exception(
        IF id \notin DOMAIN h.config \/ id \notin DOMAIN h.active THEN popped
        ELSE IF fail = "is_recording" THEN Raise(popped)
        ELSE IF ~recording THEN popped
        ELSE IF fail = "set_attribute" THEN Raise(popped)
        ELSE IF err = None THEN [popped EXCEPT !.calls = <<level>>]
        ELSE LET told == [popped EXCEPT !.calls =
                            << level,
                               Call1("langfuse.observation.status_message",
                                     <<err>>) >>]
             IN  IF fail = "record_exception" THEN Raise(told)
                 ELSE [told EXCEPT !.excs = <<err>>])

\* ------------------------------------------------------------ the program
\* The callables of the program that get decorated: a plain function, a
\* coroutine function, and a bound method (on which setattr raises
\* AttributeError, so the decoration marker cannot be attached).
FuncNames == {"f", "g", "m"}

Fn(f) ==
    CASE f = "f" -> [async |-> FALSE, markable |-> TRUE, qualname |-> <<"f">>,
                     fname |-> <<"f">>, cls |-> <<>>, params |-> <<"id">>]
      [] f = "g" -> [async |-> TRUE, markable |-> TRUE, qualname |-> <<"g">>,
                     fname |-> <<"g">>, cls |-> <<>>, params |-> <<>>]
      [] f = "m" -> [async |-> FALSE, markable |-> FALSE,
                     qualname |-> <<"T", ".", "m">>,
                     fname |-> <<"m">>, cls |-> <<"T">>, params |-> <<>>]

\* The logical executions (tasks or threads), each with its own Context.
Ctxs == {1, 2}

\* The Context made by copy_context() in the call that creates frame n.
CopyOf(n) == Cardinality(Ctxs) + n

VARIABLES
    applied,                \* f -> how many times with_span(...) was applied to it
    decorated,              \* f -> func carries __dispatcher_span_decorated__
    layers,                 \* f -> the with_span wrappers stacked on f, innermost first
    active_instrument_tags, \* Context -> the ambient tags
    active_span_id,         \* Context -> the current span identity, NoId when unset
    stack,                  \* Context -> the wrapper frames executing, outermost first
    frames,                 \* every wrapper invocation so far
    futures,                \* the asyncio.Future objects returned by sync bodies
    signals,                \* what the dispatcher was sent, in order
    default_capture_io,     \* AttributeSpanHandler.default_capture_io
    active_spans,           \* AttributeSpanHandler._active_spans
    span_config,            \* AttributeSpanHandler._span_config
    otel                    \* the live OpenTelemetry span of each frame

vars == << applied, decorated, layers, active_instrument_tags, active_span_id, stack,
           frames, futures, signals, default_capture_io, active_spans,
           span_config, otel >>

Handler == [active |-> active_spans, config |-> span_config,
            default_capture_io |-> default_capture_io]

Top(c) == stack[c][Len(stack[c])]

PopStack(c) == [stack EXCEPT ![c] = SubSeq(@, 1, Len(@) - 1)]

NoOutcome == [k |-> "none", v |-> None, fut |-> 0]

\* Faulty variant: any arguments bind
signature_bind_any(fn, args) == TRUE

\* inspect.signature(func).bind(*args, **kwargs)
signature_bind(fn, args) == [i \in 1..Len(args) |-> args[i].k] = fn.params

\* is_recording() of the live span the handler stored for id
Recording(id) == IF id \in DOMAIN active_spans
                 THEN otel[active_spans[id]].recording ELSE FALSE

\* the live span after the handler's calls for id
Decorated(id, h) ==
    IF id \in DOMAIN active_spans
    THEN [otel EXCEPT ![active_spans[id]] =
            [@ EXCEPT !.calls = @ \o h.calls, !.excs = @ \o h.excs]]
    ELSE otel

\* decorator(func), applied to the callable the previous application to f
\* returned: the idempotency check and the new wrapper layer.  hasattr and
\* setattr on a wrapper reach the wrapped func.  Decoration happens while the
\* program is set up, before its first call.
RECURSIVE Total(_, _)
Total(cnt, fs) ==
    IF fs = {} THEN 0
    ELSE LET f == CHOOSE x \in fs : TRUE IN cnt[f] + Total(cnt, fs \ {f})

decorator(f, cfg, max) ==
    /\ frames = <<>>
    /\ Total(applied, FuncNames) < max
    /\ Len(layers[f]) < MaxLayers
    /\ applied' = [applied EXCEPT ![f] = @ + 1]
    /\ IF decorated[f]
       THEN UNCHANGED << decorated, layers >>
       ELSE /\ decorated' = [decorated EXCEPT ![f] = Fn(f).markable]
            /\ layers' = [layers EXCEPT ![f] = Append(@, cfg)]
    /\ UNCHANGED << active_instrument_tags, active_span_id, stack, frames,
                    futures, signals, default_capture_io, active_spans,
                    span_config, otel >>

\* what a handler call let escape to the dispatcher
Raised(h) == IF h.raised = "none" THEN <<>> ELSE <<h.raised>>

\* wrapper / async_wrapper up to the call of func: bind, identity, merged
\* tags, copy_context, set the slot, span_enter.
Prologue(c, f, lay, args, outer, kind, fail) ==
    LET n == Len(frames) + 1
        fn == Fn(f)
        cfg == layers[f][lay]
        id == span_id(cfg, fn, n)
        tags == merged_tags(active_instrument_tags[c], cfg)
        old == active_span_id[c]
        h == span_enter(Handler, id, args, fn.cls, tags,
                        [ref |-> n, recording |-> kind = "rec"], fail)
        frame == [f |-> f, layer |-> lay, async |-> fn.async, ctx |-> c,
                  args |-> args, id |-> id, parent_id |-> old, tags |-> tags,
                  token |-> [ctx |-> c, old |-> old],
                  context |-> [cid |-> CopyOf(n), slot |-> old],
                  pc |-> "body", sub |-> 0, outer |-> outer,
                  caller |-> IF stack[c] = <<>> THEN 0 ELSE Top(c),
                  body |-> NoOutcome, out |-> NoOutcome, pre |-> old,
                  post |-> NoId, restore |-> "none", raised |-> Raised(h)]
    IN  /\ frames' = Append(IF outer = 0 THEN frames
                            ELSE [frames EXCEPT ![outer].sub = n], frame)
        /\ active_span_id' = [active_span_id EXCEPT ![c] = id]
        /\ signals' = Append(signals, [sig |-> "enter", id |-> id,
                                       parent_id |-> old, val |-> None,
                                       tags |-> h.tags])
        /\ active_spans' = h.active
        /\ span_config' = h.config
        /\ otel' = Append(otel, [recording |-> kind = "rec",
                                 calls |-> h.calls, excs |-> h.excs])
        /\ stack' = [stack EXCEPT ![c] = Append(@, n)]
        /\ UNCHANGED << applied, decorated, layers, active_instrument_tags, futures,
                        default_capture_io >>

\* The frame a failed bind leaves: nothing but the TypeError for the caller.
BindFailure(c, f, lay, args) ==
    [f |-> f, layer |-> lay, async |-> Fn(f).async, ctx |-> c, args |-> args,
     id |-> NoId, parent_id |-> NoId, tags |-> <<>>,
     token |-> [ctx |-> c, old |-> NoId],
     context |-> [cid |-> CopyOf(Len(frames) + 1), slot |-> NoId],
     pc |-> "binderr", sub |-> 0, outer |-> 0,
     caller |-> IF stack[c] = <<>> THEN 0 ELSE Top(c),
     body |-> NoOutcome, out |-> [k |-> "raise", v |-> "TypeError", fut |-> 0],
     pre |-> active_span_id[c], post |-> active_span_id[c], restore |-> "none",
     raised |-> <<>>]

\* A call of the decorated callable f from logical execution c: from its top
\* level or from the body that is running there.
Call(c, f, args, kind, fail, max) ==
    /\ Len(frames) < max
    /\ layers[f] # <<>>
    /\ stack[c] # <<>> => frames[Top(c)].pc = "body" /\ frames[Top(c)].layer = 1
    /\ IF signature_bind(Fn(f), args)
       THEN Prologue(c, f, Len(layers[f]), args, 0, kind, fail)
       ELSE /\ frames' = Append(frames, BindFailure(c, f, Len(layers[f]), args))
            /\ otel' = Append(otel, [recording |-> FALSE, calls |-> <<>>,
                                     excs |-> <<>>])
            /\ UNCHANGED << applied, decorated, layers, active_instrument_tags,
                            active_span_id, stack, futures, signals,
                            default_capture_io, active_spans, span_config >>

\* func(*args, **kwargs) where func is itself a with_span wrapper (the
\* decorator was applied again to a target that could not be marked).
CallInner(c, kind, fail, max) ==
    /\ Len(frames) < max
    /\ stack[c] # <<>>
    /\ LET i == Top(c)
       IN  /\ frames[i].pc = "body"
           /\ frames[i].layer > 1
           /\ frames[i].sub = 0
           /\ Prologue(c, frames[i].f, frames[i].layer - 1, frames[i].args,
                       i, kind, fail)

\* What func(*args, **kwargs) can hand to the wrapper frame i: anything for
\* the undecorated body, the inner wrapper's outcome for a wrapper of a wrapper.
Values == {None, "v1"}
Errs == {"e1"}

\* every outcome a body can have, as the input of the completion actions
Outcomes ==
    [k : {"value", "raise", "future"}, v : Values \cup Errs,
     fut : 0..(MaxCalls + MaxCallsNest + MaxCallsDeco + MaxCallsCfg)]

\* the outcomes drawn where the value's content plays no part
PlainOutcomes == { o \in Outcomes : o.k = "value" => o.v = "v1" }

BodyOutcomes(i) ==
    IF frames[i].layer = 1
    THEN { o \in Outcomes :
             \/ o.k = "value" /\ o.v \in Values /\ o.fut = 0
             \/ o.k = "raise" /\ o.v \in Errs /\ o.fut = 0
             \/ /\ o.k = "future" /\ o.v = None /\ o.fut = Len(futures) + 1
                /\ ~frames[i].async }
    ELSE IF frames[i].sub # 0 /\ frames[frames[i].sub].pc \in {"done", "pending"}
    THEN {frames[frames[i].sub].out}
    ELSE {}

Emit(sig, id, val) ==
    Append(signals, [sig |-> sig, id |-> id, parent_id |-> NoId, val |-> val,
                     tags |-> <<>>])

\* The end of a frame that hands control back at once: the signal went out
\* through h, the slot is reset through the token (finally), the outcome o
\* reaches the caller.
Finish(c, i, o, h) ==
    LET r == ContextVarReset(c, active_span_id[c], frames[i].token)
    IN  /\ active_span_id' = [active_span_id EXCEPT ![c] = r.slot]
        /\ frames' = [frames EXCEPT ![i] =
                        [@ EXCEPT !.pc = "done", !.body = o, !.out = o,
                                  !.post = r.slot, !.restore = r.err,
                                  !.raised = @ \o Raised(h)]]
        /\ stack' = PopStack(c)
        /\ active_spans' = h.active
        /\ span_config' = h.config
        /\ otel' = Decorated(frames[i].id, h)
        /\ UNCHANGED << applied, decorated, layers, active_instrument_tags, futures,
                        default_capture_io >>

\* Faulty variant: span_exit is sent without the body's result
wrapper_return_loses_result(c, o, fail) ==
    /\ stack[c] # <<>>
    /\ LET i == Top(c)
       IN  /\ frames[i].pc = "body"
           /\ ~frames[i].async
           /\ o \in BodyOutcomes(i)
           /\ o.k = "value"
           /\ signals' = Emit("exit", frames[i].id, None)
           /\ Finish(c, i, o,
                     span_exit(Handler, frames[i].id, None,
                               Recording(frames[i].id), fail))

\* wrapper: the body returned a value that is no asyncio.Future
wrapper_return(c, o, fail) ==
    /\ stack[c] # <<>>
    /\ LET i == Top(c)
       IN  /\ frames[i].pc = "body"
           /\ ~frames[i].async
           /\ o \in BodyOutcomes(i)
           /\ o.k = "value"
           /\ signals' = Emit("exit", frames[i].id, o.v)
           /\ Finish(c, i, o,
                     span_exit(Handler, frames[i].id, o.v,
                               Recording(frames[i].id), fail))

\* wrapper: the body raised
wrapper_raise(c, o, fail) ==
    /\ stack[c] # <<>>
    /\ LET i == Top(c)
       IN  /\ frames[i].pc = "body"
           /\ ~frames[i].async
           /\ o \in BodyOutcomes(i)
           /\ o.k = "raise"
           /\ signals' = Emit("drop", frames[i].id, o.v)
           /\ Finish(c, i, o,
                     span_drop(Handler, frames[i].id, o.v,
                               Recording(frames[i].id), fail))

\* Faulty variant: the Future is not told apart from a plain value: span_exit is
\* sent inline as well
wrapper_return_future_exits(c, o) ==
    /\ stack[c] # <<>>
    /\ LET i == Top(c)
           h == span_exit(Handler, frames[i].id, None, Recording(frames[i].id),
                          "none")
       IN  /\ frames[i].pc = "body"
           /\ ~frames[i].async
           /\ o \in BodyOutcomes(i)
           /\ o.k = "future"
           /\ futures' = IF o.fut > Len(futures)
                         THEN Append(futures, [state |-> "pending",
                                               val |-> None, cbs |-> <<i>>])
                         ELSE [futures EXCEPT ![o.fut].cbs = Append(@, i)]
           /\ frames' = [frames EXCEPT ![i] =
                           [@ EXCEPT !.pc = "pending", !.body = o, !.out = o,
                                     !.post = active_span_id[c]]]
           /\ stack' = PopStack(c)
           /\ signals' = Emit("exit", frames[i].id, None)
           /\ active_spans' = h.active
           /\ span_config' = h.config
           /\ otel' = Decorated(frames[i].id, h)
           /\ UNCHANGED << applied, decorated, layers, active_instrument_tags,
                           active_span_id, default_capture_io >>

\* wrapper: the body returned an asyncio.Future; the completion callback is
\* added, the Future goes to the caller and the slot is not reset.
wrapper_return_future(c, o) ==
    /\ stack[c] # <<>>
    /\ LET i == Top(c)
       IN  /\ frames[i].pc = "body"
           /\ ~frames[i].async
           /\ o \in BodyOutcomes(i)
           /\ o.k = "future"
           /\ futures' = IF o.fut > Len(futures)
                         THEN Append(futures, [state |-> "pending",
                                               val |-> None, cbs |-> <<i>>])
                         ELSE [futures EXCEPT ![o.fut].cbs = Append(@, i)]
           /\ frames' = [frames EXCEPT ![i] =
                           [@ EXCEPT !.pc = "pending", !.body = o, !.out = o,
                                     !.post = active_span_id[c]]]
           /\ stack' = PopStack(c)
           /\ UNCHANGED << applied, decorated, layers, active_instrument_tags,
                           active_span_id, signals, default_capture_io,
                           active_spans, span_config, otel >>

\* async_wrapper: the awaited body completed
async_wrapper_return(c, o, fail) ==
    /\ stack[c] # <<>>
    /\ LET i == Top(c)
       IN  /\ frames[i].pc = "body"
           /\ frames[i].async
           /\ o \in BodyOutcomes(i)
           /\ o.k = "value"
           /\ signals' = Emit("exit", frames[i].id, o.v)
           /\ Finish(c, i, o,
                     span_exit(Handler, frames[i].id, o.v,
                               Recording(frames[i].id), fail))

\* Faulty variant: the failure is re-raised without span_drop
async_wrapper_raise_silent(c, o, fail) ==
    /\ stack[c] # <<>>
    /\ LET i == Top(c)
       IN  /\ frames[i].pc = "body"
           /\ frames[i].async
           /\ o \in BodyOutcomes(i)
           /\ o.k = "raise"
           /\ signals' = signals
           /\ Finish(c, i, o, [active |-> active_spans, config |-> span_config,
                               calls |-> <<>>, excs |-> <<>>,
                               raised |-> "none"])

\* async_wrapper: the awaited body raised
async_wrapper_raise(c, o, fail) ==
    /\ stack[c] # <<>>
    /\ LET i == Top(c)
       IN  /\ frames[i].pc = "body"
           /\ frames[i].async
           /\ o \in BodyOutcomes(i)
           /\ o.k = "raise"
           /\ signals' = Emit("drop", frames[i].id, o.v)
           /\ Finish(c, i, o,
                     span_drop(Handler, frames[i].id, o.v,
                               Recording(frames[i].id), fail))

\* The event loop settles a Future: a result, an exception, or cancellation.
FutureSettle(fu, state, val) ==
    /\ fu \in 1..Len(futures)
    /\ futures[fu].state = "pending"
    /\ futures' = [futures EXCEPT ![fu] = [@ EXCEPT !.state = state, !.val = val]]
    /\ UNCHANGED << applied, decorated, layers, active_instrument_tags, active_span_id,
                    stack, frames, signals, default_capture_io, active_spans,
                    span_config, otel >>

\* handle_future_result, run by the event loop for the next callback of a
\* settled Future.  future.exception() returns the exception (truthy) or
\* None, and raises CancelledError for a cancelled Future.
handle_future_result(fu, fail) ==
    /\ fu \in 1..Len(futures)
    /\ futures[fu].state # "pending"
    /\ futures[fu].cbs # <<>>
    /\ LET i == Head(futures[fu].cbs)
           id == frames[i].id
           cancelled == futures[fu].state = "cancelled"
           result == IF futures[fu].state = "err" THEN None ELSE futures[fu].val
           h == IF cancelled
                THEN span_drop(Handler, id, "CancelledError", Recording(id), fail)
                ELSE span_exit(Handler, id, result, Recording(id), fail)
           r == ContextVarReset(frames[i].context.cid, frames[i].context.slot,
                                frames[i].token)
       IN  /\ signals' = IF cancelled THEN Emit("drop", id, "CancelledError")
                         ELSE Emit("exit", id, result)
           /\ frames' = [frames EXCEPT ![i] =
                           [@ EXCEPT !.pc = "done", !.restore = r.err,
                                     !.context = [@ EXCEPT !.slot = r.slot],
                                     !.raised = @ \o Raised(h)]]
           /\ futures' = [futures EXCEPT ![fu].cbs = Tail(@)]
           /\ active_spans' = h.active
           /\ span_config' = h.config
           /\ otel' = Decorated(id, h)
           /\ UNCHANGED << applied, decorated, layers, active_instrument_tags,
                           active_span_id, stack, default_capture_io >>

\* The external tracer ends a live span: is_recording() turns false.
OtelEnd(n) ==
    /\ n \in 1..Len(otel)
    /\ otel[n].recording
    /\ otel' = [otel EXCEPT ![n].recording = FALSE]
    /\ UNCHANGED << applied, decorated, layers, active_instrument_tags, active_span_id,
                    stack, frames, futures, signals, default_capture_io,
                    active_spans, span_config >>

\* Signals of other instrumentation (@dispatcher.span): the dispatcher hands
\* them to the same handler; their tags are the ambient tags, without the
\* control marker.  Their identities are "<other>-<uuid4>".
ForeignId(n) == <<"other", "-">> \o uuid4(n)

Foreign(id) == id # NoId /\ Head(id) = "other"

ForeignSent(sigs) ==
    { k \in 1..Len(signals) : signals[k].sig \in sigs /\ Foreign(signals[k].id) }

ForeignOpen ==
    { signals[k].id : k \in ForeignSent({"enter"}) }
        \ { signals[k].id : k \in ForeignSent({"exit", "drop"}) }

\* trace.get_current_span() in logical execution c: the live span of the
\* marked call running there, the invalid (never recording) span otherwise
CurrentSpan(c) ==
    IF stack[c] = <<>> THEN [ref |-> 0, recording |-> FALSE]
    ELSE [ref |-> Top(c), recording |-> otel[Top(c)].recording]

dispatcher_span_enter(c, fail, max) ==
    LET id == ForeignId(Cardinality(ForeignSent({"enter"})) + 1)
        tags == active_instrument_tags[c]
        span == CurrentSpan(c)
        h == span_enter(Handler, id, <<>>, <<>>, tags, span, fail)
    IN  /\ Cardinality(ForeignSent({"enter"})) < max
        /\ ~Has(tags, "_with_span_marker")
        /\ signals' = Append(signals, [sig |-> "enter", id |-> id,
                                       parent_id |-> active_span_id[c],
                                       val |-> None, tags |-> h.tags])
        /\ active_spans' = h.active
        /\ span_config' = h.config
        /\ otel' = IF span.ref = 0 THEN otel
                   ELSE [otel EXCEPT ![span.ref] =
                           [@ EXCEPT !.calls = @ \o h.calls,
                                     !.excs = @ \o h.excs]]
        /\ UNCHANGED << applied, decorated, layers, active_instrument_tags,
                        active_span_id, stack, frames, futures,
                        default_capture_io >>

dispatcher_span_exit(id, result, fail) ==
    LET h == span_exit(Handler, id, result, Recording(id), fail)
    IN  /\ id \in ForeignOpen
        /\ signals' = Emit("exit", id, result)
        /\ active_spans' = h.active
        /\ span_config' = h.config
        /\ otel' = Decorated(id, h)
        /\ UNCHANGED << applied, decorated, layers, active_instrument_tags,
                        active_span_id, stack, frames, futures,
                        default_capture_io >>

dispatcher_span_drop(id, err, fail) ==
    LET h == span_drop(Handler, id, err, Recording(id), fail)
    IN  /\ id \in ForeignOpen
        /\ signals' = Emit("drop", id, err)
        /\ active_spans' = h.active
        /\ span_config' = h.config
        /\ otel' = Decorated(id, h)
        /\ UNCHANGED << applied, decorated, layers, active_instrument_tags,
                        active_span_id, stack, frames, futures,
                        default_capture_io >>

\* ---------------------------------------------------------- specifications
NoTags == [t |-> "none", l |-> <<>>, d |-> <<>>]

Cfg0 == [name |-> <<>>, tags |-> NoTags, level |-> "DEFAULT",
         error_level |-> "ERROR", capture_input |-> TRUE,
         capture_output |-> TRUE]

Cfg1 == [Cfg0 EXCEPT !.name = <<"N">>, !.level = "DEBUG"]

ArgSets == { <<>>, << [k |-> "id", v |-> "7"] >> }

Quiet ==
    /\ active_span_id = [c \in Ctxs |-> NoId]
    /\ stack = [c \in Ctxs |-> <<>>]
    /\ frames = <<>>
    /\ futures = <<>>
    /\ signals = <<>>
    /\ active_spans = <<>>
    /\ span_config = <<>>
    /\ otel = <<>>

\* Spec: the life cycle.  f and g were decorated once when their module was
\* imported; calls nest and run concurrently in the logical executions.
Init ==
    /\ applied = [f \in FuncNames |-> IF f = "m" THEN 0 ELSE 1]
    /\ decorated = [f \in FuncNames |-> f # "m"]
    /\ layers = [f \in FuncNames |-> IF f = "m" THEN <<>> ELSE <<Cfg0>>]
    /\ active_instrument_tags = [c \in Ctxs |-> <<>>]
    /\ default_capture_io = TRUE
    /\ Quiet

Next ==
    \/ \E c \in Ctxs, f \in FuncNames, a \in ArgSets :
          Call(c, f, a, "rec", "none", MaxCalls)
    \/ \E c \in Ctxs, o \in PlainOutcomes : wrapper_return(c, o, "none")
    \/ \E c \in Ctxs, o \in PlainOutcomes : wrapper_raise(c, o, "none")
    \/ \E c \in Ctxs, o \in PlainOutcomes : wrapper_return_future(c, o)
    \/ \E c \in Ctxs, o \in PlainOutcomes : async_wrapper_return(c, o, "none")
    \/ \E c \in Ctxs, o \in PlainOutcomes : async_wrapper_raise(c, o, "none")
    \/ \E fu \in 1..Len(futures), v \in {"v1"} : FutureSettle(fu, "ok", v)
    \/ \E fu \in 1..Len(futures), e \in Errs : FutureSettle(fu, "err", e)
    \/ \E fu \in 1..Len(futures) : FutureSettle(fu, "cancelled", None)
    \/ \E fu \in 1..Len(futures) : handle_future_result(fu, "none")

Spec == Init /\ [][Next]_vars

\* SpecNest: the life cycle of deeper call trees in one logical execution.
NextNest ==
    \/ \E f \in FuncNames, a \in ArgSets :
          Call(1, f, a, "rec", "none", MaxCallsNest)
    \/ \E o \in PlainOutcomes : wrapper_return(1, o, "none")
    \/ \E o \in PlainOutcomes : wrapper_raise(1, o, "none")
    \/ \E o \in PlainOutcomes : wrapper_return_future(1, o)
    \/ \E o \in PlainOutcomes : async_wrapper_return(1, o, "none")
    \/ \E o \in PlainOutcomes : async_wrapper_raise(1, o, "none")
    \/ \E fu \in 1..Len(futures), v \in {"v1"} : FutureSettle(fu, "ok", v)
    \/ \E fu \in 1..Len(futures), e \in Errs : FutureSettle(fu, "err", e)
    \/ \E fu \in 1..Len(futures) : FutureSettle(fu, "cancelled", None)
    \/ \E fu \in 1..Len(futures) : handle_future_result(fu, "none")

SpecNest == Init /\ [][NextNest]_vars

\* SpecDeco: the decorator applied up to MaxLayers times before the calls,
\* to a function and to a bound method, in one logical execution.
InitDeco ==
    /\ applied = [f \in FuncNames |-> 0]
    /\ decorated = [f \in FuncNames |-> FALSE]
    /\ layers = [f \in FuncNames |-> <<>>]
    /\ active_instrument_tags = [c \in Ctxs |-> <<>>]
    /\ default_capture_io = TRUE
    /\ Quiet

NextDeco ==
    \/ \E f \in {"f", "m"}, cfg \in {Cfg0, Cfg1} : decorator(f, cfg, MaxLayers)
    \/ \E f \in {"f", "m"}, a \in ArgSets :
          Call(1, f, a, "rec", "none", MaxCallsDeco)
    \/ CallInner(1, "rec", "none", MaxCallsDeco)
    \/ \E o \in PlainOutcomes : wrapper_return(1, o, "none")
    \/ \E o \in PlainOutcomes : wrapper_raise(1, o, "none")
    \/ \E o \in PlainOutcomes : wrapper_return_future(1, o)
    \/ \E fu \in 1..Len(futures), v \in {"v1"} : FutureSettle(fu, "ok", v)
    \/ \E fu \in 1..Len(futures), e \in Errs : FutureSettle(fu, "err", e)
    \/ \E fu \in 1..Len(futures) : FutureSettle(fu, "cancelled", None)
    \/ \E fu \in 1..Len(futures) : handle_future_result(fu, "none")

SpecDeco == InitDeco /\ [][NextDeco]_vars

\* SpecCfg: one decoration with any of the decorator's arguments, then calls
\* under any ambient tags, live span and internal failure of the handler.
Names == { <<>>, <<"a", "-", "b">> }

DictTags(d) == [t |-> "dict", l |-> <<>>, d |-> d]

TagArgs ==
    { NoTags,
      [t |-> "list", l |-> <<"a", "b">>, d |-> <<>>],
      [t |-> "list", l |-> <<>>, d |-> <<>>],
      DictTags(<< [k |-> "x", v |-> S("1")] >>),
      DictTags(<< [k |-> "_capture_input", v |-> B(TRUE)],
                  [k |-> "_capture_output", v |-> B(TRUE)] >>),
      DictTags(<< [k |-> "_langfuse_level", v |-> S("WARNING")] >>) }

Levels == { <<"DEFAULT", "ERROR">>, <<"DEBUG", "CRITICAL">> }

Cfgs ==
    { [name |-> n, tags |-> t, level |-> lv[1], error_level |-> lv[2],
       capture_input |-> ci, capture_output |-> co] :
      n \in Names, t \in TagArgs, lv \in Levels, ci \in BOOLEAN,
      co \in BOOLEAN }

AmbientTags ==
    { <<>>,
      << [k |-> "x", v |-> S("amb")],
         [k |-> "_langfuse_level", v |-> S("AMB")],
         [k |-> "_capture_input", v |-> B(TRUE)] >> }

Fails == {"none", "get_current_span", "is_recording", "set_attribute", "json",
          "record_exception"}

InitCfg ==
    /\ applied = [f \in FuncNames |-> 0]
    /\ decorated = [f \in FuncNames |-> FALSE]
    /\ layers = [f \in FuncNames |-> <<>>]
    /\ \E t \in AmbientTags : active_instrument_tags = [c \in Ctxs |-> t]
    /\ default_capture_io \in BOOLEAN
    /\ Quiet

NextCfg ==
    \/ \E f \in FuncNames, cfg \in Cfgs : decorator(f, cfg, MaxDecorationsCfg)
    \/ \E f \in FuncNames, a \in ArgSets, k \in {"rec", "nonrec"}, x \in Fails :
          Call(1, f, a, k, x, MaxCallsCfg)
    \/ \E o \in Outcomes, x \in Fails : wrapper_return(1, o, x)
    \/ \E o \in Outcomes, x \in Fails : wrapper_raise(1, o, x)
    \/ \E o \in Outcomes : wrapper_return_future(1, o)
    \/ \E o \in Outcomes, x \in Fails : async_wrapper_return(1, o, x)
    \/ \E o \in Outcomes, x \in Fails : async_wrapper_raise(1, o, x)
    \/ \E fu \in 1..Len(futures), v \in Values : FutureSettle(fu, "ok", v)
    \/ \E fu \in 1..Len(futures), e \in Errs : FutureSettle(fu, "err", e)
    \/ \E fu \in 1..Len(futures) : FutureSettle(fu, "cancelled", None)
    \/ \E fu \in 1..Len(futures), x \in Fails : handle_future_result(fu, x)
    \/ \E n \in 1..Len(otel) : OtelEnd(n)

SpecCfg == InitCfg /\ [][NextCfg]_vars

\* SpecAttr: the attributes the handler writes when nothing inside it fails:
\* every callable decorated once with the same arguments, calls in one
\* logical execution on a live span that records or not and may be ended.
AttrCfgs ==
    { [name |-> <<>>, tags |-> t, level |-> lv[1], error_level |-> lv[2],
       capture_input |-> TRUE, capture_output |-> TRUE] :
      t \in TagArgs, lv \in Levels }

InitAttr ==
    /\ applied = [f \in FuncNames |-> 1]
    /\ decorated = [f \in FuncNames |-> Fn(f).markable]
    /\ \E cfg \in AttrCfgs : layers = [f \in FuncNames |-> <<cfg>>]
    /\ \E t \in AmbientTags : active_instrument_tags = [c \in Ctxs |-> t]
    /\ default_capture_io = TRUE
    /\ Quiet

NextAttr ==
    \/ \E f \in FuncNames, a \in ArgSets, k \in {"rec", "nonrec"} :
          Call(1, f, a, k, "none", MaxCallsAttr)
    \/ \E o \in Outcomes : wrapper_return(1, o, "none")
    \/ \E o \in Outcomes : wrapper_raise(1, o, "none")
    \/ \E o \in Outcomes : wrapper_return_future(1, o)
    \/ \E o \in Outcomes : async_wrapper_return(1, o, "none")
    \/ \E o \in Outcomes : async_wrapper_raise(1, o, "none")
    \/ \E fu \in 1..Len(futures), v \in Values : FutureSettle(fu, "ok", v)
    \/ \E fu \in 1..Len(futures), e \in Errs : FutureSettle(fu, "err", e)
    \/ \E fu \in 1..Len(futures) : FutureSettle(fu, "cancelled", None)
    \/ \E fu \in 1..Len(futures) : handle_future_result(fu, "none")
    \/ \E n \in 1..Len(otel) : OtelEnd(n)

SpecAttr == InitAttr /\ [][NextAttr]_vars

\* SpecMix: marked calls that nest and overlap (through pending Futures) in
\* one logical execution, interleaved with the signals of other
\* instrumentation.
ForeignIds == { ForeignId(n) : n \in 1..(MaxForeign + 1) }

InitMix ==
    /\ applied = [f \in FuncNames |-> IF f = "m" THEN 0 ELSE 1]
    /\ decorated = [f \in FuncNames |-> f # "m"]
    /\ layers = [f \in FuncNames |-> IF f = "m" THEN <<>> ELSE <<Cfg0>>]
    /\ \E t \in AmbientTags : active_instrument_tags = [c \in Ctxs |-> t]
    /\ default_capture_io = TRUE
    /\ Quiet

MixArgs(f) == IF f = "f" THEN << [k |-> "id", v |-> "7"] >> ELSE <<>>

NextMix ==
    \/ \E f \in {"f", "g"} : Call(1, f, MixArgs(f), "rec", "none", MaxCallsMix)
    \/ \E o \in PlainOutcomes : wrapper_return(1, o, "none")
    \/ \E o \in PlainOutcomes : wrapper_raise(1, o, "none")
    \/ \E o \in PlainOutcomes : wrapper_return_future(1, o)
    \/ \E o \in PlainOutcomes : async_wrapper_return(1, o, "none")
    \/ \E o \in PlainOutcomes : async_wrapper_raise(1, o, "none")
    \/ \E fu \in 1..Len(futures), v \in {"v1"} : FutureSettle(fu, "ok", v)
    \/ \E fu \in 1..Len(futures) : FutureSettle(fu, "cancelled", None)
    \/ \E fu \in 1..Len(futures) : handle_future_result(fu, "none")
    \/ \E x \in Fails : dispatcher_span_enter(1, x, MaxForeign)
    \/ \E id \in ForeignIds, x \in Fails : dispatcher_span_exit(id, "v1", x)
    \/ \E id \in ForeignIds, x \in Fails : dispatcher_span_drop(id, "e1", x)

SpecMix == InitMix /\ [][NextMix]_vars

\* SpecHandler: the maps of the handler under marked calls that nest and
\* overlap (through pending Futures) in one logical execution, on live spans
\* that record or not, with a failure of is_recording or set_attribute.
HandlerFails == {"none", "is_recording", "set_attribute"}

NextHandler ==
    \/ \E k \in {"rec", "nonrec"}, x \in HandlerFails :
          Call(1, "f", MixArgs("f"), k, x, MaxCallsHandler)
    \/ \E o \in PlainOutcomes, x \in HandlerFails : wrapper_return(1, o, x)
    \/ \E o \in PlainOutcomes, x \in HandlerFails : wrapper_raise(1, o, x)
    \/ \E o \in PlainOutcomes : wrapper_return_future(1, o)
    \/ \E fu \in 1..Len(futures), v \in {"v1"} : FutureSettle(fu, "ok", v)
    \/ \E fu \in 1..Len(futures) : FutureSettle(fu, "cancelled", None)
    \/ \E fu \in 1..Len(futures), x \in HandlerFails :
          handle_future_result(fu, x)

SpecHandler == Init /\ [][NextHandler]_vars

\* SpecFail: one marked call, sync or async, on a live span that records or
\* not or is ended, with any internal step of the handler failing.
NextFail ==
    \/ \E f \in {"f", "g"}, k \in {"rec", "nonrec"}, x \in Fails :
          Call(1, f, MixArgs(f), k, x, MaxCallsFail)
    \/ \E o \in PlainOutcomes, x \in Fails : wrapper_return(1, o, x)
    \/ \E o \in PlainOutcomes, x \in Fails : wrapper_raise(1, o, x)
    \/ \E o \in PlainOutcomes : wrapper_return_future(1, o)
    \/ \E o \in PlainOutcomes, x \in Fails : async_wrapper_return(1, o, x)
    \/ \E o \in PlainOutcomes, x \in Fails : async_wrapper_raise(1, o, x)
    \/ \E fu \in 1..Len(futures), v \in {"v1"} : FutureSettle(fu, "ok", v)
    \/ \E fu \in 1..Len(futures), e \in Errs : FutureSettle(fu, "err", e)
    \/ \E fu \in 1..Len(futures) : FutureSettle(fu, "cancelled", None)
    \/ \E fu \in 1..Len(futures), x \in Fails : handle_future_result(fu, x)
    \/ \E n \in 1..Len(otel) : OtelEnd(n)

SpecFail == Init /\ [][NextFail]_vars

\* ------------------------------------------------------------------ claims
Live == { i \in 1..Len(frames) : frames[i].pc # "binderr" }

At(sig, id) == { k \in 1..Len(signals) :
                    signals[k].sig = sig /\ signals[k].id = id }

N(sig, id) == Cardinality(At(sig, id))

CfgOf(i) == layers[frames[i].f][frames[i].layer]

\* C1: every invocation's identity gets one span_enter first and then, once
\* the body or the returned Future has completed, exactly one of span_exit
\* and span_drop; before that none, and never both or a second one.
C1_EnterThenOneExitOrDrop ==
    /\ \A i \in Live :
          /\ N("enter", frames[i].id) = 1
          /\ N("exit", frames[i].id) + N("drop", frames[i].id)
                = (IF frames[i].pc = "done" THEN 1 ELSE 0)
          /\ \A k \in At("exit", frames[i].id) \cup At("drop", frames[i].id) :
                \E e \in At("enter", frames[i].id) : e < k
          /\ \A j \in Live : j # i => frames[j].id # frames[i].id
    /\ \A k \in 1..Len(signals) : \E i \in Live : frames[i].id = signals[k].id

\* C1 witness: a Future-returning invocation and an invocation running
\* concurrently in another logical execution have both completed.
C1_Witness ==
    \E i, j \in Live :
        /\ frames[i].pc = "done" /\ frames[i].out.k = "future"
        /\ frames[j].pc = "done" /\ frames[j].ctx # frames[i].ctx

\* C2: a synchronous invocation whose body returned the plain value v sent one
\* span_enter, one span_exit carrying v and no span_drop, and returned v.
C2_SyncReturnExitsWithValue ==
    \A i \in Live :
        (~frames[i].async /\ frames[i].pc = "done" /\ frames[i].body.k = "value")
        => /\ N("enter", frames[i].id) = 1
           /\ N("exit", frames[i].id) = 1
           /\ N("drop", frames[i].id) = 0
           /\ \A k \in At("exit", frames[i].id) :
                 signals[k].val = frames[i].body.v
           /\ frames[i].out = frames[i].body

\* C2 witness: a nested synchronous invocation returned "v1".
C2_Witness ==
    \E i \in Live :
        /\ ~frames[i].async /\ frames[i].pc = "done"
        /\ frames[i].body.k = "value" /\ frames[i].body.v = "v1"
        /\ frames[i].caller # 0

\* C3: an invocation (sync or async) whose body raised e sent one span_enter,
\* one span_drop carrying e and no span_exit; the caller gets e, with the
\* drop sent and the current-span slot back at its value before the call.
C3_RaiseDropsAndReraises ==
    \A i \in Live :
        (frames[i].pc = "done" /\ frames[i].body.k = "raise")
        => /\ N("enter", frames[i].id) = 1
           /\ N("drop", frames[i].id) = 1
           /\ N("exit", frames[i].id) = 0
           /\ \A k \in At("drop", frames[i].id) :
                 signals[k].val = frames[i].body.v
           /\ frames[i].out = frames[i].body
           /\ frames[i].post = frames[i].pre

\* C3 witness: a synchronous and an asynchronous invocation raised, one of
\* them nested in another span.
C3_Witness ==
    \E i, j \in Live :
        /\ frames[i].pc = "done" /\ frames[i].body.k = "raise" /\ ~frames[i].async
        /\ frames[j].pc = "done" /\ frames[j].body.k = "raise" /\ frames[j].async
        /\ frames[j].pre # NoId

\* C4: the completion callback of a Future-returning invocation sends
\* span_exit with the resolved value when the Future settled with a result,
\* and span_drop with the failure, and no span_exit, when it settled with a
\* failure.
C4_FutureExitOrDrop ==
    \A i \in Live :
        (frames[i].pc = "done" /\ frames[i].out.k = "future")
        => LET fu == futures[frames[i].out.fut]
           IN  /\ fu.state = "ok" =>
                     /\ N("exit", frames[i].id) = 1
                     /\ \A k \in At("exit", frames[i].id) : signals[k].val = fu.val
               /\ fu.state = "err" =>
                     /\ N("drop", frames[i].id) = 1
                     /\ N("exit", frames[i].id) = 0
                     /\ \A k \in At("drop", frames[i].id) : signals[k].val = fu.val

\* C5: a call of a callable to which with_span was applied twice sends the
\* signals of one application: one span_enter and at most one span_exit or
\* span_drop, also when the target cannot carry the decoration marker.
RECURSIVE Chain(_)
Chain(i) == IF frames[i].sub = 0 THEN {i} ELSE {i} \cup Chain(frames[i].sub)

Sent(sigs, i) ==
    Cardinality({ k \in 1..Len(signals) :
                    /\ signals[k].sig \in sigs
                    /\ \E j \in Chain(i) : frames[j].id = signals[k].id })

C5_TwiceIsOnce ==
    \A i \in Live :
        (frames[i].outer = 0 /\ applied[frames[i].f] >= 2)
        => /\ Sent({"enter"}, i) = 1
           /\ Sent({"exit", "drop"}, i) <= 1

\* C6: the parent_id of a nested invocation's span_enter is the identity of
\* the invocation that is executing and made the call; it is null when no
\* span is current.
C6_ParentIsCaller ==
    \A i \in Live :
        \A k \in At("enter", frames[i].id) :
            /\ frames[i].caller # 0 =>
                 signals[k].parent_id = frames[frames[i].caller].id
            /\ frames[i].pre = NoId => signals[k].parent_id = NoId

\* C7: when a call hands control back by returning a plain value or by
\* raising (sync), or by completing or raising (async), the current-span
\* slot of the caller's logical execution holds what it held before the call.
C7_SlotRestored ==
    \A i \in Live :
        (frames[i].pc = "done" /\ frames[i].out.k \in {"value", "raise"})
        => frames[i].post = frames[i].pre

\* C7 witness: a nested invocation handed control back and the outer span,
\* which is still executing, is current again.
C7_Witness ==
    \E i \in Live :
        /\ frames[i].pc = "done" /\ frames[i].out.k \in {"value", "raise"}
        /\ frames[i].caller # 0 /\ frames[frames[i].caller].pc = "body"
        /\ frames[i].pre = frames[frames[i].caller].id
        /\ frames[i].post = frames[i].pre


\* C8: in the tags given to span_enter the control keys carry the values of
\* the decorator's level, error_level, capture_input and capture_output
\* arguments, whatever the ambient tags and the decorator's own tags hold.
C8_ControlKeysWin ==
    \A i \in Live :
        \A k \in At("enter", frames[i].id) :
            LET tags == signals[k].tags
                cfg == CfgOf(i)
            IN  /\ Has(tags, "_with_span_marker")
                /\ Get(tags, "_with_span_marker") = B(TRUE)
                /\ Get(tags, "_langfuse_level") = S(cfg.level)
                /\ Get(tags, "_langfuse_error_level") = S(cfg.error_level)
                /\ Get(tags, "_capture_input") = B(cfg.capture_input)
                /\ Get(tags, "_capture_output") = B(cfg.capture_output)

SetCalls(i, key) == { n \in 1..Len(otel[i].calls) : otel[i].calls[n].k = key }

\* C9: the langfuse.observation.name the handler sets on enter is the <name>
\* the engine built the identity "<name>-<uid>" from.
C9_NameIsInverseOfIdentity ==
    \A i \in Live :
        \A n \in SetCalls(i, "langfuse.observation.name") :
            otel[i].calls[n].v = span_name(CfgOf(i), Fn(frames[i].f))

\* C10: with capture_input=False no langfuse.observation.input is ever set
\* on the invocation's live span, and with capture_output=False no
\* langfuse.observation.output.
C10_CaptureFlagsObeyed ==
    \A i \in Live :
        /\ ~CfgOf(i).capture_input =>
              SetCalls(i, "langfuse.observation.input") = {}
        /\ ~CfgOf(i).capture_output =>
              SetCalls(i, "langfuse.observation.output") = {}

\* the tags the span_enter of frame i carried
EnterTags(i) == frames[i].tags

\* the failure the span_drop of frame i carried
DropErr(i) == signals[CHOOSE k \in At("drop", frames[i].id) : TRUE].val

\* C11: for a marked span on a live span that records, span_drop sets
\* langfuse.observation.level to the error_level stored at enter, sets
\* langfuse.observation.status_message to the failure's string form and
\* records the exception; span_exit never sets a status_message.
C11_DropLevelAndMessage ==
    \A i \in Live :
        (frames[i].pc = "done" /\ otel[i].recording)
        => LET calls == otel[i].calls
               n == Len(calls)
               stored == GetOr(EnterTags(i), "_langfuse_error_level", S("ERROR"))
           IN  /\ N("drop", frames[i].id) = 1 =>
                     /\ n >= 2
                     /\ calls[n - 1] = Call1("langfuse.observation.level",
                                             <<Str(stored)>>)
                     /\ calls[n] = Call1("langfuse.observation.status_message",
                                         <<DropErr(i)>>)
                     /\ otel[i].excs = <<DropErr(i)>>
               /\ N("exit", frames[i].id) = 1 =>
                     /\ SetCalls(i, "langfuse.observation.status_message") = {}
                     /\ otel[i].excs = <<>>

\* C11 witness: a span decorated with error_level="CRITICAL" was dropped on
\* a recording live span and its level now reads CRITICAL.
C11_Witness ==
    \E i \in Live :
        /\ frames[i].pc = "done" /\ otel[i].recording
        /\ N("drop", frames[i].id) = 1
        /\ CfgOf(i).error_level = "CRITICAL"
        /\ \E n \in SetCalls(i, "langfuse.observation.level") :
              otel[i].calls[n].v = <<"CRITICAL">>

\* C12: a signal that does not carry the control marker (an enter, or the
\* exit or drop that follows it) makes no set_attribute or record_exception
\* call on any live span and leaves both handler maps as they were, however
\* it is interleaved with the signals of marked spans.
C12_UnmarkedSignalsIgnored ==
    [][ ( /\ Len(signals') = Len(signals) + 1
          /\ Foreign(signals'[Len(signals')].id) )
        => ( /\ otel' = otel
             /\ active_spans' = active_spans
             /\ span_config' = span_config ) ]_vars

\* C12 witness: an unmarked enter and its exit or drop were both delivered
\* while a marked span was registered in both maps of the handler.
C12_Witness ==
    \E i \in Live :
        \E a \in ForeignSent({"enter"}), b \in ForeignSent({"exit", "drop"}) :
            /\ signals[a].id = signals[b].id
            /\ signals[a].tags # <<>>
            /\ \E e \in At("enter", frames[i].id) : e < a
            /\ \A x \in At("exit", frames[i].id) \cup At("drop", frames[i].id) :
                  b < x
            /\ frames[i].id \in DOMAIN span_config
            /\ otel[i].calls # <<>>

\* the identities whose marked span_enter was sent and whose span_exit or
\* span_drop was not
Open == { frames[i].id : i \in { j \in Live : frames[j].pc # "done" } }

\* C13: an identity is a key of _span_config only if it is a key of
\* _active_spans; an identity is in either map only between its marked
\* span_enter and its span_exit or span_drop, so after the exit or drop it is
\* in neither, also when the live span did not record or a step failed.
C13_MapsHoldOpenSpansOnly ==
    /\ DOMAIN span_config \subseteq DOMAIN active_spans
    /\ DOMAIN active_spans \subseteq Open
    /\ \A id \in DOMAIN active_spans :
          /\ N("enter", id) = 1
          /\ N("exit", id) + N("drop", id) = 0
          /\ \A k \in At("enter", id) : Has(signals[k].tags, "_with_span_marker")

\* C13 witness: a span on whose enter nothing was set (its live span was not
\* recording, or a step failed) has exited or dropped while another identity
\* is still registered in both maps.
C13_Witness ==
    \E i, j \in Live :
        /\ frames[i].pc = "done" /\ otel[i].calls = <<>>
        /\ frames[i].id \notin DOMAIN active_spans
        /\ frames[j].pc # "done"
        /\ frames[j].id \in DOMAIN span_config

\* C15: span_enter, span_exit and span_drop return normally whichever
\* internal step fails (live-span lookup, is_recording, set_attribute,
\* record_exception, serialization): nothing is raised to the dispatcher.
C15_HandlersRaiseNothing ==
    \A i \in Live : frames[i].raised = <<>>

\* C15 witness: record_exception failed inside span_drop (the status message
\* is on the live span, which still records, and no exception is), and
\* span_drop returned normally.
C15_Witness ==
    \E i \in Live :
        /\ frames[i].pc = "done" /\ otel[i].recording
        /\ N("drop", frames[i].id) = 1
        /\ SetCalls(i, "langfuse.observation.status_message") # {}
        /\ otel[i].excs = <<>>
        /\ frames[i].raised = <<>>

\* the arguments of frame i do not match the signature of its callable
Mismatch(fr) == [k \in 1..Len(fr.args) |-> fr.args[k].k] # Fn(fr.f).params

\* C14: a call whose arguments do not match the wrapped callable's signature
\* raises the binding failure (TypeError) to the caller at once: the call
\* sends no span_enter, span_exit or span_drop, does not invoke the body,
\* leaves the current-span slot and the handler as they were.
C14_BindFailureIsSilent ==
    [][ ( /\ Len(frames') = Len(frames) + 1
          /\ Mismatch(frames'[Len(frames')]) )
        => ( /\ frames'[Len(frames')].pc = "binderr"
             /\ frames'[Len(frames')].out =
                   [k |-> "raise", v |-> "TypeError", fut |-> 0]
             /\ frames'[Len(frames')].body = NoOutcome
             /\ signals' = signals
             /\ active_span_id' = active_span_id
             /\ stack' = stack
             /\ active_spans' = active_spans
             /\ span_config' = span_config ) ]_vars

\* C14 witness: a call with arguments that do not bind was made from the body
\* of an open span, and the slot still holds that span's identity.
C14_Witness ==
    \E i \in 1..Len(frames) :
        /\ frames[i].pc = "binderr"
        /\ Mismatch(frames[i])
        /\ frames[i].caller # 0
        /\ frames[frames[i].caller].pc = "body"
        /\ active_span_id[frames[i].ctx] = frames[frames[i].caller].id
        /\ N("enter", frames[frames[i].caller].id) = Len(signals)

LangfuseKeys ==
    { "langfuse.observation.name", "langfuse.observation.level",
      "langfuse.trace.tags", "langfuse.observation.input",
      "langfuse.observation.output", "langfuse.observation.status_message" }

\* the set_attribute calls on the live span of frame i that set one tag
PerTagCalls(i) ==
    { n \in 1..Len(otel[i].calls) : otel[i].calls[n].k \notin LangfuseKeys }

\* C16: on enter of a marked span on a recording live span, decorator tags
\* given as a list L set langfuse.trace.tags to the JSON array of L and set
\* no per-tag attribute; given as a mapping, langfuse.trace.tags is the JSON
\* array of the "key:value" strings of the residual tags and every residual
\* key is set as an attribute of its own with the string form of its value.
C16_TagsListOrMapping ==
    \A i \in Live :
        otel[i].recording
        => LET cfg == CfgOf(i)
               calls == otel[i].calls
               residual == PopAll(EnterTags(i), ControlKeys)
               L1 == [k \in 1..Len(cfg.tags.l) |-> <<cfg.tags.l[k]>>]
               KV == [k \in 1..Len(residual) |->
                        <<residual[k].k, ":", Str(residual[k].v)>>]
           IN  /\ cfg.tags.t = "list" =>
                     /\ \E n \in SetCalls(i, "langfuse.trace.tags") :
                           calls[n].v = JsonList(L1)
                     /\ Cardinality(SetCalls(i, "langfuse.trace.tags")) = 1
                     /\ PerTagCalls(i) = {}
               /\ (cfg.tags.t = "dict" /\ residual # <<>>) =>
                     /\ \E n \in SetCalls(i, "langfuse.trace.tags") :
                           calls[n].v = JsonList(KV)
                     /\ Cardinality(SetCalls(i, "langfuse.trace.tags")) = 1
                     /\ \A k \in 1..Len(residual) :
                           \E n \in PerTagCalls(i) :
                              calls[n] = Call1(residual[k].k,
                                               <<Str(residual[k].v)>>)

\* C17: when the body of a synchronous wrapper returned an asyncio.Future,
\* the wrapper hands it to the caller with no span_exit or span_drop sent for
\* the identity and with the current-span slot still holding this span's
\* identity; the exit or drop is sent later, by the completion callback,
\* once the Future has settled.
C17_FutureReturnedUnrestored ==
    \A i \in Live :
        frames[i].out.k = "future"
        => /\ frames[i].pc \in {"pending", "done"}
           /\ frames[i].post = frames[i].id
           /\ frames[i].pc = "pending" =>
                 N("exit", frames[i].id) + N("drop", frames[i].id) = 0
           /\ N("exit", frames[i].id) + N("drop", frames[i].id) > 0 =>
                 /\ frames[i].pc = "done"
                 /\ futures[frames[i].out.fut].state # "pending"

\* C18: in the Future-returning branch too the slot set on enter is restored
\* through its token: once the completion callback has sent the exit or drop
\* and run its restore step, the reset has succeeded and the slot of the
\* logical execution that made the call no longer holds the invocation's
\* identity.
C18_FutureSlotRestored ==
    \A i \in Live :
        (frames[i].pc = "done" /\ frames[i].out.k = "future")
        => /\ frames[i].restore = "none"
           /\ active_span_id[frames[i].ctx] # frames[i].id

\* the signals sent before the k-th that open or close the identity id
Before(sigs, id, k) ==
    { e \in 1..(k - 1) : signals[e].id = id /\ signals[e].sig \in sigs }

\* C20: the parent_id of every span_enter is null or the identity of a span
\* that is open when the enter is sent: its enter was sent before and
\* neither its exit nor its drop was.
C20_ParentIsOpen ==
    \A k \in 1..Len(signals) :
        (signals[k].sig = "enter" /\ ~Foreign(signals[k].id)
           /\ signals[k].parent_id # NoId)
        => /\ Before({"enter"}, signals[k].parent_id, k) # {}
           /\ Before({"exit", "drop"}, signals[k].parent_id, k) = {}

====
